---- MODULE Spec2Model ----
(***************************************************************************)
(* Library REST API (books and users over MongoDB/mongoose).               *)
(*                                                                         *)
(* The handlers are async functions: what runs between two awaited         *)
(* database calls touches only the request's own locals, and every         *)
(* database call is atomic at the server.  One action is therefore one     *)
(* database call together with the handler code that follows it up to the  *)
(* next awaited call (or the response); the code a handler runs before its *)
(* first call is part of the action of that first call.                    *)
(*                                                                         *)
(* Strings of books are sequences of one-character strings, because        *)
(* getBooks inspects their characters; the empty sequence, the empty       *)
(* string and NoId stand for a field the JSON body does not carry (a       *)
(* falsy value in the handlers' tests).  year, tags and borrowedBooks are  *)
(* copied through by the handlers and are not modelled.  The database      *)
(* outlives the server: a behaviour starts from two stored books and two   *)
(* stored users.                                                           *)
(***************************************************************************)
EXTENDS Integers, Sequences, FiniteSets, TLC

\* ------------------------------------------------------------------ bounds
\* number of requests the server receives in one behaviour
MaxRequests == 2
\* number of distinct outcomes of Math.random() that are explored
MaxDraw == 2

\* the request-handling flows that can be in flight at once
Procs == {1, 2}

\* ------------------------------------------------------------- input data
NoId == -1
NoText == << >>

Dune == <<"D", "u">>
Emma == <<"E", "m">>
Herbert == <<"H", "e">>
Fiction == <<"F", "i">>

\* ids a client puts in a body; 0 is a number the handlers' !id test rejects
ClientIds == {0, 1, 2}
\* ids a client puts in the path
PathIds == {1, 2}

\* outcomes of Math.random() in [0, 1), as <<numerator, denominator>>
RandomSamples == << <<0, 1>>, <<9999, 10000>>, <<1, 2>>, <<1, 10000>> >>

Random == {RandomSamples[i] : i \in 1..MaxDraw}

\* Math.floor(10000 + Math.random() * 90000)
RandomId(r) == 10000 + ((r[1] * 90000) \div r[2])

RandomIds == {RandomId(r) : r \in Random}

\* --------------------------------------------------------------- schemas
validStatuses == {"available", "borrowed", "in maintenance"}

\* bookSchema: every path but year and tags is required, status is an enum
BookSchemaValid(doc) ==
    /\ doc.id # NoId
    /\ doc.title # NoText
    /\ doc.author # NoText
    /\ doc.category # NoText
    /\ doc.status # ""
    /\ doc.status \in validStatuses

\* userSchema: id, firstName, lastName and address are required
UserSchemaValid(doc) ==
    /\ doc.id # NoId
    /\ doc.firstName # ""
    /\ doc.lastName # ""
    /\ doc.address # ""

\* mutant: the collection has no unique index
DuplicateKeyNoIndex(coll, id) == FALSE

\* the unique index on id rejects a document whose id another document holds
DuplicateKey(coll, id) == \E r \in coll : r.id = id

\* Model.findOne({ id }): the matching documents (empty when the result is null)
FindOne(coll, id) == {r \in coll : r.id = id}

Ids(coll) == {r.id : r \in coll}

\* ------------------------------------------------------------ validation
\* mutant: the author is not checked
ValidBookBodyTitleOnly(body) == body.title # NoText

\* !req.body.title || !req.body.author
ValidBookBody(body) == body.title # NoText /\ body.author # NoText

\* !req.body.firstName || !req.body.lastName || !req.body.address
ValidUserBody(body) ==
    body.firstName # "" /\ body.lastName # "" /\ body.address # ""

\* req.body.status && !validStatuses.includes(req.body.status)
InvalidStatus(body) == body.status # "" /\ body.status \notin validStatuses

\* !newBookId
Falsy(id) == id = NoId \/ id = 0

\* ------------------------------------------------------------- documents
Book1 == [id |-> 1, title |-> Dune, author |-> Herbert, category |-> Fiction,
          status |-> "available"]
Book10000 == [id |-> 10000, title |-> Emma, author |-> Herbert,
              category |-> Fiction, status |-> "borrowed"]
User1 == [id |-> 1, firstName |-> "Ann", lastName |-> "Lee", address |-> "Rd"]
User10000 == [id |-> 10000, firstName |-> "Bob", lastName |-> "Lee",
              address |-> "Rd"]

BookBodies ==
    {[id |-> i, title |-> Emma, author |-> Herbert, category |-> Fiction,
      status |-> "in maintenance"] : i \in {NoId} \cup ClientIds}
    \cup {[id |-> 1, title |-> Emma, author |-> Herbert, category |-> Fiction,
           status |-> s] : s \in {"", "lost"}}
    \cup {[id |-> 1, title |-> NoText, author |-> Herbert,
           category |-> Fiction, status |-> "borrowed"],
          [id |-> NoId, title |-> Emma, author |-> NoText,
           category |-> Fiction, status |-> ""],
          [id |-> NoId, title |-> Emma, author |-> Herbert,
           category |-> NoText, status |-> "borrowed"],
          [id |-> NoId, title |-> Emma, author |-> Herbert,
           category |-> NoText, status |-> ""]}

UserBodies ==
    {[id |-> i, firstName |-> "Bob", lastName |-> "Lee", address |-> "St"] :
        i \in {NoId} \cup ClientIds}
    \cup {[id |-> 1, firstName |-> "", lastName |-> "Lee", address |-> "St"],
          [id |-> NoId, firstName |-> "Bob", lastName |-> "", address |-> "St"],
          [id |-> 2, firstName |-> "Bob", lastName |-> "Lee", address |-> ""]}

\* ----------------------------------------------------------------- state
VARIABLES
    books,   \* the books collection
    users,   \* the users collection
    pc,      \* per flow: "idle", or the awaited call: "loop", "save", "write"
    req,     \* per flow: the request in flight
    newId,   \* per flow: the handler's newBookId / newUserId
    last,    \* the request answered last, its id local and its response
    nreq,    \* number of requests received
    route    \* the resource the clients of this behaviour address

vars == <<books, users, pc, req, newId, last, nreq, route>>

NoReq == [op |-> "none", pathId |-> NoId, body |-> [id |-> NoId]]

Init ==
    /\ books = {Book1, Book10000}
    /\ users = {User1, User10000}
    /\ pc = [p \in Procs |-> "idle"]
    /\ req = [p \in Procs |-> NoReq]
    /\ newId = [p \in Procs |-> NoId]
    /\ last = [req |-> NoReq, id |-> NoId, status |-> 0, body |-> {}]
    /\ nreq = 0
    /\ route \in {"books", "users"}

\* ------------------------------------------------------ database operations
Coll(op) == IF op \in {"createBook", "updateBook", "getBooks"} THEN books ELSE users

\* mutant: save() replaces the document that holds the id
SaveUpsert(coll, doc, valid) ==
    IF ~valid
    THEN [error |-> TRUE, coll |-> coll]
    ELSE [error |-> FALSE, coll |-> (coll \ FindOne(coll, doc.id)) \cup {doc}]

\* document.save(): schema validation, then an insert under the unique index
Save(coll, doc, valid) ==
    IF ~valid \/ DuplicateKey(coll, doc.id)
    THEN [error |-> TRUE, coll |-> coll]
    ELSE [error |-> FALSE, coll |-> coll \cup {doc}]

\* { $set: req.body } on a book: the fields the body carries replace the old ones
SetBook(old, body) ==
    [id |-> IF body.id # NoId THEN body.id ELSE old.id,
     title |-> IF body.title # NoText THEN body.title ELSE old.title,
     author |-> IF body.author # NoText THEN body.author ELSE old.author,
     category |-> IF body.category # NoText THEN body.category ELSE old.category,
     status |-> IF body.status # "" THEN body.status ELSE old.status]

\* { $set: req.body } on a user
SetUser(old, body) ==
    [id |-> IF body.id # NoId THEN body.id ELSE old.id,
     firstName |-> IF body.firstName # "" THEN body.firstName ELSE old.firstName,
     lastName |-> IF body.lastName # "" THEN body.lastName ELSE old.lastName,
     address |-> IF body.address # "" THEN body.address ELSE old.address]

\* Model.findOneAndUpdate({ id }, { $set }, { new: true }) with `new` the
\* document after $set: no schema validators run, the unique index does
FindOneAndUpdate(coll, old, new) ==
    IF old = {} THEN [error |-> FALSE, doc |-> {}, coll |-> coll]
    ELSE IF DuplicateKey(coll \ old, new.id)
         THEN [error |-> TRUE, doc |-> {}, coll |-> coll]
         ELSE [error |-> FALSE, doc |-> {new}, coll |-> (coll \ old) \cup {new}]

\* mutant: the document is found but stays in the collection
FindOneKept(coll, id) == [doc |-> FindOne(coll, id), coll |-> coll]

\* Model.findOneAndDelete({ id })
FindOneAndDelete(coll, id) ==
    [doc |-> FindOne(coll, id), coll |-> coll \ FindOne(coll, id)]

\* ------------------------------------------------------------------ getBooks
UpperToLower == ("D" :> "d") @@ ("E" :> "e") @@ ("F" :> "f") @@ ("H" :> "h")
                @@ ("I" :> "i") @@ ("M" :> "m") @@ ("U" :> "u")

Lower(c) == IF c \in DOMAIN UpperToLower THEN UpperToLower[c] ELSE c

\* new RegExp(pattern, 'i') throws a SyntaxError on an unterminated group;
\* patterns are built from letters, "." and "("
ValidRegExp(pattern) == \A i \in 1..Len(pattern) : pattern[i] # "("

\* { $regex: new RegExp(pattern, 'i') }: an unanchored, case-insensitive match
\* where "." matches any character
RegExpTest(pattern, text) ==
    \E o \in 0..(Len(text) - Len(pattern)) :
        \A i \in 1..Len(pattern) :
            pattern[i] = "." \/ Lower(pattern[i]) = Lower(text[o + i])

\* BookModel.find(filter): a filter field is set only for a non-empty string
Find(coll, query) ==
    {b \in coll :
        /\ query.title = NoText \/ RegExpTest(query.title, b.title)
        /\ query.author = NoText \/ RegExpTest(query.author, b.author)
        /\ query.category = NoText \/ RegExpTest(query.category, b.category)}

Queries ==
    {[title |-> t, author |-> NoText, category |-> NoText] :
        t \in {NoText, <<"d", "U">>, <<".">>, <<"(">>}}
    \cup {[title |-> <<"m">>, author |-> <<"h">>, category |-> NoText],
          [title |-> NoText, author |-> NoText, category |-> <<"f", "I">>]}

\* ------------------------------------------------------------ handler steps
\* res.status(status).json(body): the flow is free for the next request
Respond(p, r, id, status, body) ==
    /\ last' = [req |-> r, id |-> id, status |-> status, body |-> body]
    /\ pc' = [pc EXCEPT ![p] = "idle"]
    /\ req' = [req EXCEPT ![p] = NoReq]
    /\ newId' = [newId EXCEPT ![p] = NoId]

\* the handler suspends on an awaited database call
Await(p, r, id, call) ==
    /\ pc' = [pc EXCEPT ![p] = call]
    /\ req' = [req EXCEPT ![p] = r]
    /\ newId' = [newId EXCEPT ![p] = id]
    /\ UNCHANGED last

\* a request arrives and is taken by the first flow that is not in flight.
\* The handlers of one resource never read or write the other collection, so
\* a behaviour mixes requests of one resource only
Receive(p, resource) ==
    /\ route = resource
    /\ UNCHANGED route
    /\ pc[p] = "idle"
    /\ \A q \in Procs : q < p => pc[q] # "idle"
    /\ nreq < MaxRequests
    /\ nreq' = nreq + 1

\* the id is settled: what the handler does up to its next awaited call
AfterId(p, r, id) ==
    IF r.op = "createBook" /\ InvalidStatus(r.body)
    THEN Respond(p, r, id, 400, {})
    ELSE Await(p, r, id,
               IF r.op \in {"createBook", "createUser"} THEN "save" ELSE "write")

\* await Model.findOne({ id: cand }): a hit draws a new id and loops
CheckCandidate(p, r, cand) ==
    IF FindOne(Coll(r.op), cand) # {}
    THEN \E g \in RandomIds : Await(p, r, g, "loop")
    ELSE AfterId(p, r, cand)

\* let newId = req.body.id; if (!newId || (await Model.findOne(...))) { ... }
GenerateId(p, r) ==
    IF Falsy(r.body.id)
    THEN \E g \in RandomIds : CheckCandidate(p, r, g)
    ELSE CheckCandidate(p, r, r.body.id)

createBook(p) ==
    \E body \in BookBodies :
        LET r == [op |-> "createBook", pathId |-> NoId, body |-> body] IN
        /\ Receive(p, "books")
        /\ UNCHANGED <<books, users>>
        /\ IF ~ValidBookBody(body)
           THEN Respond(p, r, NoId, 400, {})
           ELSE GenerateId(p, r)

createUser(p) ==
    \E body \in UserBodies :
        LET r == [op |-> "createUser", pathId |-> NoId, body |-> body] IN
        /\ Receive(p, "users")
        /\ UNCHANGED <<books, users>>
        /\ IF ~ValidUserBody(body)
           THEN Respond(p, r, NoId, 400, {})
           ELSE GenerateId(p, r)

updateBook(p) ==
    \E body \in BookBodies, id \in PathIds :
        LET r == [op |-> "updateBook", pathId |-> id, body |-> body] IN
        /\ Receive(p, "books")
        /\ UNCHANGED <<books, users>>
        /\ IF ~ValidBookBody(body)
           THEN Respond(p, r, NoId, 400, {})
           ELSE GenerateId(p, r)

updateUser(p) ==
    \E body \in UserBodies, id \in PathIds :
        LET r == [op |-> "updateUser", pathId |-> id, body |-> body] IN
        /\ Receive(p, "users")
        /\ UNCHANGED <<books, users>>
        /\ IF ~ValidUserBody(body)
           THEN Respond(p, r, NoId, 400, {})
           ELSE GenerateId(p, r)

\* while (await Model.findOne({ id: newId })) { newId = ... }
generateIdLoop(p) ==
    /\ pc[p] = "loop"
    /\ CheckCandidate(p, req[p], newId[p])
    /\ UNCHANGED <<books, users, nreq, route>>

\* await newBook.save(); res.status(201).json(newBook)
createBookSave(p) ==
    /\ pc[p] = "save"
    /\ req[p].op = "createBook"
    /\ LET body == req[p].body
           doc == [id |-> newId[p], title |-> body.title, author |-> body.author,
                   category |-> body.category, status |-> body.status]
           res == Save(books, doc, BookSchemaValid(doc)) IN
       /\ books' = res.coll
       /\ IF res.error
          THEN Respond(p, req[p], newId[p], 500, {})
          ELSE Respond(p, req[p], newId[p], 201, {doc})
    /\ UNCHANGED <<users, nreq, route>>

\* await newUser.save(); res.status(201).json(newUser)
createUserSave(p) ==
    /\ pc[p] = "save"
    /\ req[p].op = "createUser"
    /\ LET body == req[p].body
           doc == [id |-> newId[p], firstName |-> body.firstName,
                   lastName |-> body.lastName, address |-> body.address]
           res == Save(users, doc, UserSchemaValid(doc)) IN
       /\ users' = res.coll
       /\ IF res.error
          THEN Respond(p, req[p], newId[p], 500, {})
          ELSE Respond(p, req[p], newId[p], 201, {doc})
    /\ UNCHANGED <<books, nreq, route>>

\* the filter of updateBook: { id: Number(req.params.bookId) }
BookFilterId(r) == r.pathId

\* the filter of updateUser: { id: Number(String(req.body.id)) }
UserFilterId(r) == r.body.id

\* the document a findOneAndUpdate works on (any, when nothing matches)
Pick(found, any) == CHOOSE d \in found \cup {any} : found # {} => d \in found

\* req.body.id = newBookId; findOneAndUpdate; status check; 200 or 404
updateBookWrite(p) ==
    /\ pc[p] = "write"
    /\ req[p].op = "updateBook"
    /\ LET body == [req[p].body EXCEPT !.id = newId[p]]
           old == FindOne(books, BookFilterId(req[p]))
           res == FindOneAndUpdate(books, old, SetBook(Pick(old, Book1), body)) IN
       /\ books' = res.coll
       /\ IF res.error THEN Respond(p, req[p], newId[p], 500, {})
          ELSE IF InvalidStatus(body) THEN Respond(p, req[p], newId[p], 400, {})
          ELSE IF res.doc # {} THEN Respond(p, req[p], newId[p], 200, res.doc)
          ELSE Respond(p, req[p], newId[p], 404, {})
    /\ UNCHANGED <<users, nreq, route>>

\* const userId = String(req.body.id); req.body.id = newUserId;
\* findOneAndUpdate; 200 or 404.  A body without id gives Number("undefined"),
\* NaN: the query matches nothing or is rejected by the driver's cast
updateUserWrite(p) ==
    /\ pc[p] = "write"
    /\ req[p].op = "updateUser"
    /\ IF UserFilterId(req[p]) = NoId
       THEN /\ \E s \in {404, 500} : Respond(p, req[p], newId[p], s, {})
            /\ UNCHANGED users
       ELSE LET body == [req[p].body EXCEPT !.id = newId[p]]
                old == FindOne(users, UserFilterId(req[p]))
                res == FindOneAndUpdate(users, old, SetUser(Pick(old, User1), body)) IN
            /\ users' = res.coll
            /\ IF res.error THEN Respond(p, req[p], newId[p], 500, {})
               ELSE IF res.doc # {} THEN Respond(p, req[p], newId[p], 200, res.doc)
               ELSE Respond(p, req[p], newId[p], 404, {})
    /\ UNCHANGED <<books, nreq, route>>

getBooks(p) ==
    \E query \in Queries :
        LET r == [op |-> "getBooks", pathId |-> NoId, body |-> query] IN
        /\ Receive(p, "books")
        /\ IF \E f \in {query.title, query.author, query.category} : ~ValidRegExp(f)
           THEN Respond(p, r, NoId, 500, {})
           ELSE Respond(p, r, NoId, 200, Find(books, query))
        /\ UNCHANGED <<books, users>>

getUserById(p) ==
    \E id \in PathIds :
        LET r == [op |-> "getUserById", pathId |-> id, body |-> [id |-> NoId]] IN
        /\ Receive(p, "users")
        /\ IF FindOne(users, id) # {}
           THEN Respond(p, r, NoId, 200, FindOne(users, id))
           ELSE Respond(p, r, NoId, 404, {})
        /\ UNCHANGED <<books, users>>

deleteUser(p) ==
    \E id \in PathIds :
        LET r == [op |-> "deleteUser", pathId |-> id, body |-> [id |-> NoId]]
            res == FindOneAndDelete(users, id) IN
        /\ Receive(p, "users")
        /\ users' = res.coll
        /\ IF res.doc # {}
           THEN Respond(p, r, NoId, 204, {})
           ELSE Respond(p, r, NoId, 404, {})
        /\ UNCHANGED books

Next ==
    \E p \in Procs :
        \/ createBook(p)
        \/ createUser(p)
        \/ updateBook(p)
        \/ updateUser(p)
        \/ generateIdLoop(p)
        \/ createBookSave(p)
        \/ createUserSave(p)
        \/ updateBookWrite(p)
        \/ updateUserWrite(p)
        \/ getBooks(p)
        \/ getUserById(p)
        \/ deleteUser(p)

Spec == Init /\ [][Next]_vars

\* ---------------------------------------------------- reading a behaviour
\* this step sends a response; last' then holds the request and the response
Answers ==
    \/ nreq' = nreq + 1 /\ pc' = pc
    \/ \E p \in Procs : pc[p] # "idle" /\ pc'[p] = "idle"

\* this step sends the response of a request of the given operations
AnswersTo(ops) == Answers /\ last'.req.op \in ops

\* the collection a request addresses, before and after the step
Before(r) == Coll(r.op)
After(r) == IF r.op \in {"createBook", "updateBook", "getBooks"} THEN books' ELSE users'

IdsUnique(coll) == \A a, b \in coll : a.id = b.id => a = b

\* ------------------------------------------------------------------- C1
\* C1: in every reachable state no two stored records of a collection have
\* the same id, and every 201 response of a create carries one document,
\* whose id no record of the collection holds when it is inserted and which
\* is the one record the step adds.
C1_UniqueIds ==
    /\ [](IdsUnique(books) /\ IdsUnique(users))
    /\ [][AnswersTo({"createBook", "createUser"}) /\ last'.status = 201
            => \E doc \in last'.body :
                   /\ last'.body = {doc}
                   /\ doc.id \notin Ids(Before(last'.req))
                   /\ After(last'.req) = Before(last'.req) \cup {doc}]_vars

\* a create has answered 201 with the id its client supplied, next to an
\* update that has moved a record to a drawn id
C1_Witness ==
    /\ last.req.op \in {"createBook", "createUser"}
    /\ last.status = 201
    /\ \E doc \in last.body : doc \in Coll(last.req.op) /\ doc.id \in ClientIds
    /\ Cardinality(Coll(last.req.op)) = 3
    /\ \E d \in Coll(last.req.op) : d.id \in RandomIds /\ d.id # 10000

\* ------------------------------------------------------------------- C2
\* C2: when the save of a create runs after another request has stored the
\* id it settled on at its pre-check, the save is rejected: the collection is
\* left as it is, with exactly one record of that id, and the request is
\* answered 500 and ends there, without drawing another id.
C2_SaveRaceRejected ==
    [][\A p \in Procs :
          /\ pc[p] = "save"
          /\ pc'[p] # "save"
          /\ newId[p] \in Ids(Before(req[p]))
          => /\ last'.req = req[p]
             /\ last'.status = 500
             /\ last'.body = {}
             /\ pc'[p] = "idle"
             /\ books' = books
             /\ users' = users
             /\ Cardinality(FindOne(After(req[p]), newId[p])) = 1]_vars

\* two createUser requests carried the free id 2 and both passed the
\* pre-check before either save: one record of id 2 was added next to the
\* two users, and the request answered last got 500
C2_Witness ==
    /\ last.req.op = "createUser"
    /\ last.status = 500
    /\ last.id = 2
    /\ last.req.body.id = 2
    /\ nreq = 2
    /\ {User1, User10000} \subseteq users
    /\ Cardinality(users) = 3
    /\ Cardinality(FindOne(users, 2)) = 1

\* ------------------------------------------------------------------- C3
\* C3: a createBook request whose body has title and author, and whose id
\* no concurrent request has stored in the meantime, is answered 201 and adds
\* exactly one book, of the status of the body, when that status is absent
\* or one of available, borrowed, in maintenance; it is answered 400 and
\* adds nothing when the status is another value.  A body of title and
\* author alone gets 201 with a drawn id in [10000, 99999].
C3_CreateBookOutcome ==
    [][AnswersTo({"createBook"}) /\ ValidBookBody(last'.req.body)
        => IF InvalidStatus(last'.req.body)
           THEN last'.status = 400 /\ books' = books
           ELSE last'.id \notin Ids(books)
                => /\ last'.status = 201
                   /\ \E doc \in last'.body :
                         /\ doc \notin books
                         /\ books' = books \cup {doc}
                         /\ doc.status = last'.req.body.status
                         /\ Falsy(last'.req.body.id) => doc.id \in 10000..99999]_vars

\* ------------------------------------------------------------------- C4
\* C4: an updateBook request whose body lacks title or author, and an
\* updateUser request whose body lacks firstName, lastName or address, is
\* answered 400 and leaves both collections as they are, whatever its path
\* id and its other body fields.
C4_UpdateMissingField ==
    [][/\ /\ AnswersTo({"updateBook"})
             /\ NoText \in {last'.req.body.title, last'.req.body.author}
          => last'.status = 400 /\ books' = books /\ users' = users
       /\ /\ AnswersTo({"updateUser"})
             /\ "" \in {last'.req.body.firstName, last'.req.body.lastName,
                        last'.req.body.address}
          => last'.status = 400 /\ books' = books /\ users' = users]_vars

\* an updateBook whose body lacks the author and addresses a path id was
\* answered 400 after an earlier request had been served
C4_Witness ==
    /\ last.req.op = "updateBook"
    /\ last.req.body.author = NoText
    /\ last.req.body.title # NoText
    /\ last.req.pathId \in Ids(books)
    /\ last.status = 400
    /\ nreq = 2

\* ------------------------------------------------------------------- C5
\* the claim of C5 for the update handlers `ops`: a request whose body passes
\* validation, and whose settled id no concurrent request has stored, is
\* answered 200 with the modified record when a record holds the path id,
\* that record being the only one that changes; it is answered 404, the
\* collection unchanged, when no record holds the path id.
UpdateByPathId(ops) ==
    (/\ AnswersTo(ops)
     /\ last'.req.op = "updateBook"
        => /\ NoText \notin {last'.req.body.title, last'.req.body.author}
           /\ last'.req.body.status \in validStatuses \cup {""}
     /\ last'.req.op = "updateUser"
        => "" \notin {last'.req.body.firstName, last'.req.body.lastName,
                      last'.req.body.address})
    => LET c == Before(last'.req)
           target == {d \in c : d.id = last'.req.pathId}
       IN  IF target = {}
           THEN last'.status = 404 /\ After(last'.req) = c
           ELSE last'.id \notin {d.id : d \in c \ target}
                => /\ last'.status = 200
                   /\ \E d \in last'.body :
                         /\ last'.body = {d}
                         /\ After(last'.req) = (c \ target) \cup {d}

\* C5: updateBook and updateUser select the record to modify by the path id,
\* not by the id of the body.
C5_UpdateByPathId == [][UpdateByPathId({"updateBook", "updateUser"})]_vars

\* the same statement of updateBook alone
C5_UpdateBookByPathId == [][UpdateByPathId({"updateBook"})]_vars

\* ------------------------------------------------------------------- C6
\* C6: deleteUser on an id no user holds is answered 404 and leaves the users
\* as they are; on an id a user holds it is answered 204 and removes exactly
\* that user.  getUserById on an id no user holds is answered 404, and an id
\* no user holds is held again only by the step of a createUser or an
\* updateUser that settled on it: so every getUserById of a deleted id is
\* answered 404 until a create or an update assigns the id again.
C6_DeleteUser ==
    [][/\ AnswersTo({"deleteUser"})
          => LET target == {u \in users : u.id = last'.req.pathId}
             IN  /\ books' = books
                 /\ IF target = {}
                    THEN last'.status = 404 /\ users' = users
                    ELSE /\ last'.status = 204
                         /\ Cardinality(target) = 1
                         /\ users' = users \ target
       /\ AnswersTo({"getUserById"})
          => /\ users' = users
             /\ last'.req.pathId \notin {u.id : u \in users} => last'.status = 404
       /\ \A u \in users' :
             u.id \notin {v.id : v \in users}
             => AnswersTo({"createUser", "updateUser"}) /\ last'.id = u.id]_vars

\* user 1 was deleted, the other user is still stored, and the getUserById
\* of id 1 that followed was answered 404
C6_Witness ==
    /\ nreq = 2
    /\ users = {User10000}
    /\ last.req.op = "getUserById"
    /\ last.req.pathId = 1
    /\ last.status = 404

\* ------------------------------------------------------------------- C7
\* the claim of C7 for the creates whose body id is in `ids`: the create
\* settles on the id of its body when the body has one and no record holds it
\* at the pre-check; in every other case it settles on a drawn integer of
\* [10000, 99999] that no record holds when it is looked up; and a 201 stores
\* and returns the id settled on.
CreatedId(ids) ==
    \A p \in Procs :
        /\ /\ pc[p] = "idle"
           /\ pc'[p] \in {"loop", "save"}
           /\ req'[p].op \in {"createBook", "createUser"}
           /\ req'[p].body.id \in ids
           /\ req'[p].body.id \notin {d.id : d \in Before(req'[p])}
           => pc'[p] = "save" /\ newId'[p] = req'[p].body.id
        /\ /\ pc'[p] = "save"
           /\ req'[p].op \in {"createBook", "createUser"}
           /\ req'[p].body.id \in ids \cup {NoId}
           /\ \/ pc[p] = "loop"
              \/ /\ pc[p] = "idle"
                 /\ \/ req'[p].body.id = NoId
                    \/ req'[p].body.id \in {d.id : d \in Before(req'[p])}
           => /\ newId'[p] \in 10000..99999
              /\ newId'[p] \notin {d.id : d \in Before(req'[p])}
        /\ /\ pc[p] = "save"
           /\ pc'[p] = "idle"
           /\ last'.status = 201
           => /\ last'.req = req[p]
              /\ \E doc \in last'.body :
                    /\ last'.body = {doc}
                    /\ doc.id = newId[p]
                    /\ doc \in After(req[p])

\* C7: the id a successful create stores is the id of the body when the body
\* has one that no record holds at the pre-check, and otherwise a drawn
\* integer of [10000, 99999] that no record holds at its pre-check.
C7_CreatedId == [][CreatedId(ClientIds)]_vars

\* the same statement of the creates whose body has no id or a non-zero one
C7_CreatedIdNonZero == [][CreatedId(ClientIds \ {0})]_vars

\* ------------------------------------------------------------------- C8
\* text contains part, compared without regard to case
ContainsIgnoringCase(text, part) ==
    \E o \in 0..(Len(text) - Len(part)) :
        \A i \in 1..Len(part) : Lower(part[i]) = Lower(text[o + i])

\* the claim of C8 for the queries in `queries`: getBooks answers 200 with
\* exactly the stored books of which every field named by a supplied filter
\* contains the filter text, case ignored (all books when no filter is
\* supplied), and leaves the collections as they are.
FilteredBooks(queries) ==
    AnswersTo({"getBooks"}) /\ last'.req.body \in queries
    => /\ last'.status = 200
       /\ last'.body =
             {b \in books :
                 \A f \in {"title", "author", "category"} :
                     last'.req.body[f] # NoText
                     => ContainsIgnoringCase(b[f], last'.req.body[f])}
       /\ books' = books
       /\ users' = users

\* C8: getBooks returns exactly the books that satisfy every supplied filter
\* as a case-insensitive substring.
C8_FilteredBooks == [][FilteredBooks(Queries)]_vars

\* the same statement of the queries made of letters only
C8_FilteredBooksLetters ==
    [][FilteredBooks({q \in Queries :
          \A f \in {"title", "author", "category"} :
              \A i \in 1..Len(q[f]) : q[f][i] \notin {".", "("}})]_vars

\* ------------------------------------------------------------------- C9
\* C9: an updateBook request whose body has title, author and a status
\* outside available, borrowed, in maintenance is answered 400 and leaves the
\* books as they are.
C9_UpdateBookStatusChecked ==
    [][/\ AnswersTo({"updateBook"})
       /\ NoText \notin {last'.req.body.title, last'.req.body.author}
       /\ last'.req.body.status \notin {"", "available", "borrowed", "in maintenance"}
       => last'.status = 400 /\ books' = books]_vars

\* ------------------------------------------------------------------ C10
\* C10: an updateBook or updateUser request whose body passes validation and
\* whose body id is the id of the stored record its path addresses is
\* answered 200 with that record, which keeps its id: looking the path id up
\* after the response finds the updated record.
C10_UpdateKeepsOwnId ==
    [][/\ AnswersTo({"updateBook", "updateUser"})
       /\ last'.req.body.id = last'.req.pathId
       /\ last'.req.pathId \in {d.id : d \in Before(last'.req)}
       /\ last'.req.op = "updateBook"
          => /\ NoText \notin {last'.req.body.title, last'.req.body.author}
             /\ last'.req.body.status \in {"", "available", "borrowed", "in maintenance"}
       /\ last'.req.op = "updateUser"
          => "" \notin {last'.req.body.firstName, last'.req.body.lastName,
                        last'.req.body.address}
       => /\ last'.status = 200
          /\ \E d \in last'.body :
                /\ d.id = last'.req.pathId
                /\ {e \in After(last'.req) : e.id = last'.req.pathId} = {d}]_vars

\* ------------------------------------------------------------------ C11
\* A collection in which every id of [10000, 99999] is taken.  The handlers
\* look records up by id only, and the ids a behaviour looks up are those of
\* its bodies, its paths and its draws: the records of the other ids of the
\* range are never read or written, and only the records of the ids that the
\* explored draws produce are kept here.
ExhaustedBooks ==
    {Book1} \cup {[id |-> g, title |-> Emma, author |-> Herbert,
                   category |-> Fiction, status |-> "borrowed"] : g \in RandomIds}

ExhaustedUsers ==
    {User1} \cup {[id |-> g, firstName |-> "Bob", lastName |-> "Lee",
                   address |-> "Rd"] : g \in RandomIds}

InitExhausted ==
    /\ books = ExhaustedBooks
    /\ users = ExhaustedUsers
    /\ pc = [p \in Procs |-> "idle"]
    /\ req = [p \in Procs |-> NoReq]
    /\ newId = [p \in Procs |-> NoId]
    /\ last = [req |-> NoReq, id |-> NoId, status |-> 0, body |-> {}]
    /\ nreq = 0
    /\ route \in {"books", "users"}

\* Fair database responses: an awaited call of a flow in flight is answered.
\* Fair random draws: a value that the loop can draw again and again is drawn.
SpecExhausted ==
    /\ InitExhausted
    /\ [][Next]_vars
    /\ \A p \in Procs :
          /\ WF_vars(generateIdLoop(p))
          /\ WF_vars(createBookSave(p))
          /\ WF_vars(createUserSave(p))
          /\ WF_vars(updateBookWrite(p))
          /\ WF_vars(updateUserWrite(p))
          /\ \A g \in RandomIds : SF_vars(generateIdLoop(p) /\ newId'[p] = g)

\* C11: every request eventually receives its response: a flow that is in
\* flight, in the id-generation loop or at a later call, is eventually
\* answered, also when every id of [10000, 99999] of its collection is taken.
C11_EveryRequestAnswered ==
    \A p \in Procs : (pc[p] # "idle") ~> (pc[p] = "idle")

====
